---- MODULE Spec2Model ----
(***************************************************************************)
(* ev3_rover: the behaviour state machine of src/main.rs and the control   *)
(* loop of main() that drives it.  One loop iteration samples a World,     *)
(* feeds it to the state machine, computes the Device of the state just    *)
(* entered, writes it to the motors, and sleeps.  Every hardware call      *)
(* returns an Ev3Result and is followed by `?`, so each one is a step that *)
(* either succeeds or makes main return Err.                               *)
(***************************************************************************)
EXTENDS Integers, Sequences, FiniteSets, TLC

(* ------------------------------------------------------------------ *)
(* Program constants                                                   *)
(* ------------------------------------------------------------------ *)
MAX_COL == 1020
FORWARD_SPEED == -50
BACKWARD_SPEED == 50

(* ------------------------------------------------------------------ *)
(* Bounds of the model                                                 *)
(* ------------------------------------------------------------------ *)
\* the loop's tick counter is a u32; iterations are explored up to MaxTick
MaxTick == 27
\* how many times the turn motor's shaft is moved from outside the program
MaxDrift == 1

(* ------------------------------------------------------------------ *)
(* Values                                                              *)
(* ------------------------------------------------------------------ *)
\* Option<T>
None == [some |-> FALSE]
Some(v) == [some |-> TRUE, val |-> v]

\* i32 `/` truncates toward zero
i32_div(a, b) ==
    IF a >= 0 THEN a \div b ELSE -((-a) \div b)

\* readings the sensors deliver
Colors == { <<0, 1020, 1020>>, <<509, 511, 511>>, <<510, 511, 511>> }
Distances == { 10, 24, 25 }

World(t, c, d, tch, trn) ==
    [tick |-> t, color |-> c, distance |-> d, touched |-> tch, turn |-> trn]

Device(l, r, t, s) ==
    [left |-> l, right |-> r, turn |-> t, sound |-> s]

\* the variants of enum State (machine! adds Error)
Start == [name |-> "Start"]
Searching(w) == [name |-> "Searching", world |-> w]
Found == [name |-> "Found"]
AvoidingBack(t, w) == [name |-> "AvoidingBack", tick |-> t, world |-> w]
AvoidingTurn(t, w) == [name |-> "AvoidingTurn", tick |-> t, world |-> w]
AvoidingAdvance(t, w) == [name |-> "AvoidingAdvance", tick |-> t, world |-> w]
Error == [name |-> "Error"]

(* ------------------------------------------------------------------ *)
(* The state machine                                                   *)
(* ------------------------------------------------------------------ *)
\* variant of is_yellow with inclusive comparisons
is_yellow_inclusive(c) ==
    LET r == c[1]
        g == c[2]
        b == c[3]
    IN  r <= i32_div(MAX_COL, 2) /\ g >= i32_div(MAX_COL, 2) /\ b >= i32_div(MAX_COL, 2)

is_yellow(c) ==
    LET r == c[1]
        g == c[2]
        b == c[3]
    IN  r < i32_div(MAX_COL, 2) /\ g > i32_div(MAX_COL, 2) /\ b > i32_div(MAX_COL, 2)

\* variant of Start::on_world that already evaluates the first World
Start_on_world_evaluates(self, world) ==
    IF is_yellow(world.color) THEN Found ELSE Searching(world)

Start_on_world(self, world) ==
    Searching(world)

\* variant of Searching::on_world that tests the obstacle before the colour
Searching_on_world_obstacle_first(self, world) ==
    IF world.distance < 25 \/ world.touched
    THEN AvoidingBack(0, world)
    ELSE IF is_yellow(world.color)
         THEN Found
         ELSE Searching(world)

Searching_on_world(self, world) ==
    IF is_yellow(world.color)
    THEN Found
    ELSE IF world.distance < 25 \/ world.touched
         THEN AvoidingBack(0, world)
         ELSE Searching(world)

\* variant of Searching::process that sets a sound
Searching_process_beeps(self) ==
    Device(FORWARD_SPEED, FORWARD_SPEED, 0, Some("bark.wav"))

Searching_process(self) ==
    Device(FORWARD_SPEED, FORWARD_SPEED, 0, None)

AvoidingBack_on_world(self, world) ==
    IF self.tick < 10
    THEN AvoidingBack(self.tick + 1, world)
    ELSE AvoidingTurn(0, world)

AvoidingBack_process(self) ==
    Device(BACKWARD_SPEED, BACKWARD_SPEED, 0, None)

\* variant of AvoidingTurn::on_world that uses the self-transition the
\* transitions! table allows
AvoidingTurn_on_world_stays(self, world) ==
    IF self.tick < 1
    THEN AvoidingTurn(self.tick + 1, world)
    ELSE AvoidingAdvance(0, world)

AvoidingTurn_on_world(self, world) ==
    AvoidingAdvance(0, world)

AvoidingTurn_process(self) ==
    Device(0, 0, 10, None)

\* variant of last_tick that also holds on the tick after tick 9
last_tick_from_nine(self) ==
    self.tick >= 9

last_tick(self) ==
    self.tick = 9

\* variant of AvoidingAdvance::on_world that starts a new manoeuvre when the
\* obstacle is still there
AvoidingAdvance_on_world_reavoids(self, world) ==
    IF self.tick < 10
    THEN AvoidingAdvance(self.tick + 1, world)
    ELSE IF world.distance < 25 \/ world.touched
         THEN AvoidingBack(0, world)
         ELSE Searching(world)

\* variant of AvoidingAdvance::on_world that looks at the colour
AvoidingAdvance_on_world_sees_target(self, world) ==
    IF is_yellow(world.color)
    THEN Found
    ELSE IF self.tick < 10
         THEN AvoidingAdvance(self.tick + 1, world)
         ELSE Searching(world)

AvoidingAdvance_on_world(self, world) ==
    IF self.tick < 10
    THEN AvoidingAdvance(self.tick + 1, world)
    ELSE Searching(world)

AvoidingAdvance_process(self) ==
    IF last_tick(self)
    THEN Device(0, 0, -10, None)
    ELSE Device(i32_div(FORWARD_SPEED, 2), i32_div(FORWARD_SPEED, 2), 0, None)

\* variant of Found::process that keeps the forward drive
Found_process_coasting(self) ==
    Device(FORWARD_SPEED, FORWARD_SPEED, 0, Some("bark.wav"))

Found_process(self) ==
    Device(0, 0, 0, Some("bark.wav"))

\* variant of the dispatch in which the (AvoidingTurn, World) rule is missing
State_on_world_no_turn_rule(self, world) ==
    CASE self.name = "Start" -> Start_on_world(self, world)
      [] self.name = "Searching" -> Searching_on_world(self, world)
      [] self.name = "AvoidingBack" -> AvoidingBack_on_world(self, world)
      [] self.name = "AvoidingAdvance" -> AvoidingAdvance_on_world(self, world)
      [] OTHER -> Error

\* transitions!: State::on_world dispatches on the variant; a variant with no
\* rule for World (Found, Error) yields State::Error
State_on_world(self, world) ==
    CASE self.name = "Start" -> Start_on_world(self, world)
      [] self.name = "Searching" -> Searching_on_world(self, world)
      [] self.name = "AvoidingBack" -> AvoidingBack_on_world(self, world)
      [] self.name = "AvoidingTurn" -> AvoidingTurn_on_world(self, world)
      [] self.name = "AvoidingAdvance" -> AvoidingAdvance_on_world(self, world)
      [] OTHER -> Error

\* methods!: State::process is Some(..) for the listed variants, None otherwise
State_process(self) ==
    CASE self.name = "Searching" -> Some(Searching_process(self))
      [] self.name = "AvoidingBack" -> Some(AvoidingBack_process(self))
      [] self.name = "AvoidingTurn" -> Some(AvoidingTurn_process(self))
      [] self.name = "AvoidingAdvance" -> Some(AvoidingAdvance_process(self))
      [] self.name = "Found" -> Some(Found_process(self))
      [] OTHER -> None

(* ------------------------------------------------------------------ *)
(* The control loop of main()                                          *)
(* ------------------------------------------------------------------ *)
VARIABLES
    state,          \* let mut state
    tick,           \* let mut tick
    world,          \* the World sampled by the current iteration
    device_result,  \* let device_result = state.process()
    pos,            \* let pos = turn_motor.get_position()?
    pc,             \* position of main in the loop body
    result,         \* what main has returned: None while it runs
    left_duty,      \* duty cycle last written to the left motor
    right_duty,     \* duty cycle last written to the right motor
    turn_position,  \* position attribute of the turn motor
    sound_played,   \* Some(file) once sound::play(file) has completed
    drifts          \* number of outside movements of the turn motor so far

vars == <<state, tick, world, device_result, pos, pc, result,
          left_duty, right_duty, turn_position, sound_played, drifts>>

hw == <<left_duty, right_duty, turn_position, sound_played, drifts>>
locals == <<state, tick, world, device_result, pos>>

\* the motors are in run-direct with no duty cycle written yet
Init ==
    /\ state = Start
    /\ tick = 0
    /\ world = None
    /\ device_result = None
    /\ pos = None
    /\ pc = "sample"
    /\ result = None
    /\ left_duty = 0
    /\ right_duty = 0
    /\ turn_position = 0
    /\ sound_played = None
    /\ drifts = 0

\* variant of the error path that notes the error and carries on with the loop
Abort_continue ==
    /\ pc' = "sleep"
    /\ result' = Some("Err")

\* `?` on an Err: main returns the error, nothing else happens
Abort ==
    /\ pc' = "exit"
    /\ result' = Some("Err")

\* lines 243-249: the four reads that build the World
SampleWorld(colors, distances) ==
    /\ pc = "sample"
    /\ tick < MaxTick
    /\ \E c \in colors, d \in distances, tch \in BOOLEAN :
          world' = Some(World(tick, c, d, tch, turn_position))
    /\ pc' = "transition"
    /\ UNCHANGED <<state, tick, device_result, pos, result, hw>>

SampleWorldFail ==
    /\ pc = "sample"
    /\ tick < MaxTick
    /\ Abort
    /\ UNCHANGED <<locals, hw>>

\* variant of the loop body that computes the Device before the transition
Transition_old_output ==
    /\ pc = "transition"
    /\ state' = State_on_world(state, world.val)
    /\ tick' = tick + 1
    /\ device_result' = State_process(state)
    /\ pc' = IF device_result'.some THEN "set_left" ELSE "sleep"
    /\ UNCHANGED <<world, pos, result, hw>>

\* lines 251-257: state = state.on_world(world); tick += 1; state.process()
Transition ==
    /\ pc = "transition"
    /\ state' = State_on_world(state, world.val)
    /\ tick' = tick + 1
    /\ device_result' = State_process(state')
    /\ pc' = IF device_result'.some THEN "set_left" ELSE "sleep"
    /\ UNCHANGED <<world, pos, result, hw>>

\* line 259
SetLeft ==
    /\ pc = "set_left"
    /\ left_duty' = device_result.val.left
    /\ pc' = "set_right"
    /\ UNCHANGED <<locals, result, right_duty, turn_position, sound_played, drifts>>

SetLeftFail ==
    /\ pc = "set_left"
    /\ Abort
    /\ UNCHANGED <<locals, hw>>

\* line 260
SetRight ==
    /\ pc = "set_right"
    /\ right_duty' = device_result.val.right
    /\ pc' = "get_position"
    /\ UNCHANGED <<locals, result, left_duty, turn_position, sound_played, drifts>>

SetRightFail ==
    /\ pc = "set_right"
    /\ Abort
    /\ UNCHANGED <<locals, hw>>

\* line 262
GetPosition ==
    /\ pc = "get_position"
    /\ pos' = Some(turn_position)
    /\ pc' = "set_position"
    /\ UNCHANGED <<state, tick, world, device_result, result, hw>>

GetPositionFail ==
    /\ pc = "get_position"
    /\ Abort
    /\ UNCHANGED <<locals, hw>>

\* variant of the turn write that adds the delta to the sampled World's turn
SetPosition_from_world ==
    /\ pc = "set_position"
    /\ turn_position' = world.val.turn + device_result.val.turn
    /\ pc' = IF device_result.val.sound.some THEN "play" ELSE "sleep"
    /\ UNCHANGED <<locals, result, left_duty, right_duty, sound_played, drifts>>

\* lines 263-271: the write of the turn motor, then the match on device.sound
SetPosition ==
    /\ pc = "set_position"
    /\ turn_position' = pos.val + device_result.val.turn
    /\ pc' = IF device_result.val.sound.some THEN "play" ELSE "sleep"
    /\ UNCHANGED <<locals, result, left_duty, right_duty, sound_played, drifts>>

SetPositionFail ==
    /\ pc = "set_position"
    /\ Abort
    /\ UNCHANGED <<locals, hw>>

\* variant of the Some(file) arm without the break
PlaySound_no_break ==
    /\ pc = "play"
    /\ sound_played' = device_result.val.sound
    /\ pc' = "sleep"
    /\ UNCHANGED <<locals, result, left_duty, right_duty, turn_position, drifts>>

\* lines 267-268 and 279: play the file, wait for it, break, return Ok(())
PlaySound ==
    /\ pc = "play"
    /\ sound_played' = device_result.val.sound
    /\ pc' = "exit"
    /\ result' = Some("Ok")
    /\ UNCHANGED <<locals, left_duty, right_duty, turn_position, drifts>>

PlaySoundFail ==
    /\ pc = "play"
    /\ Abort
    /\ UNCHANGED <<locals, hw>>

\* line 276
Sleep ==
    /\ pc = "sleep"
    /\ pc' = "sample"
    /\ UNCHANGED <<locals, result, hw>>

\* the turn motor's shaft is moved by something other than this program
Drift ==
    /\ drifts < MaxDrift
    /\ pc # "exit"
    /\ turn_position' = turn_position + 1
    /\ drifts' = drifts + 1
    /\ UNCHANGED <<locals, pc, result, left_duty, right_duty, sound_played>>

Next ==
    \/ SampleWorld(Colors, Distances)
    \/ SampleWorldFail
    \/ Transition
    \/ SetLeft
    \/ SetLeftFail
    \/ SetRight
    \/ SetRightFail
    \/ GetPosition
    \/ GetPositionFail
    \/ SetPosition
    \/ SetPositionFail
    \/ PlaySound
    \/ PlaySoundFail
    \/ Sleep
    \/ Drift

Spec == Init /\ [][Next]_vars

TypeOK ==
    /\ state.name \in {"Start", "Searching", "Found", "AvoidingBack",
                       "AvoidingTurn", "AvoidingAdvance", "Error"}
    /\ tick \in 0..MaxTick
    /\ pc \in {"sample", "transition", "set_left", "set_right",
               "get_position", "set_position", "play", "sleep", "exit"}

(* ------------------------------------------------------------------ *)
(* The obstacle scenario: every World shows a non-target colour and    *)
(* distance 10.  No such run enters Found, so the sound is never       *)
(* played (NoPlayInScenario).                                          *)
(* ------------------------------------------------------------------ *)
NonTargetColors == { c \in Colors : ~is_yellow(c) }

NextObstacle ==
    \/ SampleWorld(NonTargetColors, {10})
    \/ SampleWorldFail
    \/ Transition
    \/ SetLeft
    \/ SetLeftFail
    \/ SetRight
    \/ SetRightFail
    \/ GetPosition
    \/ GetPositionFail
    \/ SetPosition
    \/ SetPositionFail
    \/ Sleep
    \/ Drift

SpecObstacle == Init /\ [][NextObstacle]_vars

NoPlayInScenario == pc # "play"

(* ------------------------------------------------------------------ *)
(* The classifier scenario: the machine is Searching after its first   *)
(* tick and the second World carries any colour built from the         *)
(* components around MAX_COL / 2 and around the ends of the range.     *)
(* ------------------------------------------------------------------ *)
ColorComponents == { -1, 0, 509, 510, 511, 1020, 1021 }

ColorTriples ==
    { <<r, g, b>> : r \in ColorComponents, g \in ColorComponents,
                    b \in ColorComponents }

InitColor ==
    /\ state = Searching(World(0, <<510, 511, 511>>, 25, FALSE, 0))
    /\ tick = 1
    /\ \E c \in ColorTriples, d \in Distances, tch \in BOOLEAN :
          world = Some(World(1, c, d, tch, 0))
    /\ device_result = Some(Searching_process(state))
    /\ pos = Some(0)
    /\ pc = "transition"
    /\ result = None
    /\ left_duty = FORWARD_SPEED
    /\ right_duty = FORWARD_SPEED
    /\ turn_position = 0
    /\ sound_played = None
    /\ drifts = 0

NextColor ==
    \/ Transition

SpecColor == InitColor /\ [][NextColor]_vars

(* ------------------------------------------------------------------ *)
(* The target scenario: the loop is at the top of an iteration, in     *)
(* Searching after its first tick or anywhere in the manoeuvre that an *)
(* obstacle seen on the second tick started; from now on every World   *)
(* shows a target colour and no call fails.  The loop keeps running.   *)
(* ------------------------------------------------------------------ *)
TargetColors == { c \in Colors : is_yellow(c) }

\* the loop's tick counter when the machine has just entered the state
TickOf(name, n) ==
    CASE name = "Searching" -> 1
      [] name = "AvoidingBack" -> 2 + n
      [] name = "AvoidingTurn" -> 13
      [] name = "AvoidingAdvance" -> 14 + n

\* the turn motor's position before and after that iteration's write
TurnBefore(name, n) ==
    IF name = "AvoidingAdvance" /\ n <= 9 THEN 10 ELSE 0

TurnAfter(name, n) ==
    IF name = "AvoidingTurn" \/ (name = "AvoidingAdvance" /\ n <= 8)
    THEN 10
    ELSE 0

MidStates ==
    {<<"Searching", 0>>, <<"AvoidingTurn", 0>>}
      \cup { <<"AvoidingBack", n>> : n \in 0..10 }
      \cup { <<"AvoidingAdvance", n>> : n \in 0..10 }

InitTarget ==
    \E m \in MidStates :
        LET name == m[1]
            n == m[2]
            w == World(TickOf(name, n) - 1, <<510, 511, 511>>, 10, FALSE,
                       TurnBefore(name, n))
            s == CASE name = "Searching" -> Searching(w)
                   [] name = "AvoidingBack" -> AvoidingBack(n, w)
                   [] name = "AvoidingTurn" -> AvoidingTurn(n, w)
                   [] name = "AvoidingAdvance" -> AvoidingAdvance(n, w)
        IN  /\ state = s
            /\ tick = TickOf(name, n)
            /\ world = Some(w)
            /\ device_result = State_process(s)
            /\ pos = Some(TurnBefore(name, n))
            /\ pc = "sample"
            /\ result = None
            /\ left_duty = State_process(s).val.left
            /\ right_duty = State_process(s).val.right
            /\ turn_position = TurnAfter(name, n)
            /\ sound_played = None
            /\ drifts = 0

NextTarget ==
    \/ SampleWorld(TargetColors, Distances)
    \/ Transition
    \/ SetLeft
    \/ SetRight
    \/ GetPosition
    \/ SetPosition
    \/ PlaySound
    \/ Sleep
    \/ Drift

SpecTarget == InitTarget /\ [][NextTarget]_vars /\ WF_vars(NextTarget)

(* ------------------------------------------------------------------ *)
(* Properties                                                          *)
(* ------------------------------------------------------------------ *)
\* a step of the loop that performs state = state.on_world(world)
Transitioning == pc = "transition" /\ pc' # "transition"

Avoiding == {"AvoidingBack", "AvoidingTurn", "AvoidingAdvance"}

\* C1: AvoidingBack lasts exactly 10 ticks: AvoidingBack{n}, n in 0..8, is
\* followed by AvoidingBack{n+1} and AvoidingBack{9} by AvoidingTurn{0}.
C1_BackTenTicks ==
    [][ (Transitioning /\ state.name = "AvoidingBack" /\ state.tick \in 0..9)
        => IF state.tick <= 8
           THEN state'.name = "AvoidingBack" /\ state'.tick = state.tick + 1
           ELSE state'.name = "AvoidingTurn" /\ state'.tick = 0 ]_vars

\* C2: in the obstacle scenario the machine is Searching after the first tick,
\* the next 21 states entered are AvoidingBack x10, AvoidingTurn x1,
\* AvoidingAdvance x10, and the transition after them returns to Searching.
C2_ObstacleSequence ==
    /\ tick = 1 => state.name = "Searching"
    /\ tick \in 2..11 => state.name = "AvoidingBack"
    /\ tick = 12 => state.name = "AvoidingTurn"
    /\ tick \in 13..22 => state.name = "AvoidingAdvance"
    /\ tick = 23 => state.name = "Searching"

\* C3: AvoidingAdvance{9} is followed by Searching, AvoidingAdvance{n} with
\* n < 9 by AvoidingAdvance{n+1}.
C3_AdvanceTenTicks ==
    [][ (Transitioning /\ state.name = "AvoidingAdvance" /\ state.tick \in 0..9)
        => IF state.tick < 9
           THEN state'.name = "AvoidingAdvance" /\ state'.tick = state.tick + 1
           ELSE state'.name = "Searching" ]_vars

\* C4: the straightening command (wheels stopped, turn -10) belongs to the last
\* tick spent in AvoidingAdvance: the state entered next is not AvoidingAdvance
\* and its Device is not the half-speed forward drive.
C4_StraightenIsLast ==
    [][ (Transitioning /\ state.name = "AvoidingAdvance"
           /\ device_result = Some(Device(0, 0, -10, None)))
        => /\ state'.name # "AvoidingAdvance"
           /\ device_result' # Some(Device(-25, -25, 0, None)) ]_vars

\* C5: from Searching a target colour leads to Found whatever distance and
\* touched are; otherwise distance < 25 or touched leads to AvoidingBack{0};
\* otherwise the machine stays Searching.  Distance 24 triggers avoidance,
\* distance 25 untouched does not.
C5_SearchingTransition ==
    [][ (Transitioning /\ state.name = "Searching")
        => LET w == world.val
               target == w.color[1] < 510 /\ w.color[2] > 510 /\ w.color[3] > 510
           IN  /\ target => state' = Found
               /\ (~target /\ (w.distance < 25 \/ w.touched))
                    => state' = AvoidingBack(0, w)
               /\ (~target /\ ~(w.distance < 25) /\ ~w.touched)
                    => state' = Searching(w)
               /\ (~target /\ w.distance = 24) => state'.name = "AvoidingBack"
               /\ (~target /\ w.distance = 25 /\ ~w.touched)
                    => state'.name = "Searching" ]_vars

\* Found was entered on a World that also reports an obstacle
C5_Witness ==
    /\ state = Found
    /\ tick > 1
    /\ world.val.distance = 24
    /\ world.val.touched

\* C6: once the state is Found the loop only moves forward through one
\* application of Found's Device (wheels 0, turn 0, sound set) and exits: no
\* World is sampled, no transition is taken, no second Device is computed.
PcRank(p) ==
    CASE p = "set_left" -> 1
      [] p = "set_right" -> 2
      [] p = "get_position" -> 3
      [] p = "set_position" -> 4
      [] p = "play" -> 5
      [] p = "exit" -> 6
      [] OTHER -> 0

C6_FoundTerminates ==
    [][ /\ state.name = "Found"
          => /\ state' = state /\ tick' = tick /\ world' = world
             /\ device_result' = device_result
             /\ PcRank(pc) >= 1
             /\ PcRank(pc') >= PcRank(pc)
             /\ device_result = Some(Device(0, 0, 0, Some("bark.wav")))
             /\ (PcRank(pc) < PcRank(pc') /\ result' # Some("Err"))
                  => PcRank(pc') = PcRank(pc) + 1
        /\ result' = Some("Ok")
          => /\ state'.name = "Found"
             /\ left_duty' = 0 /\ right_duty' = 0
             /\ sound_played' = Some("bark.wav")
        /\ sound_played'.some => result' = Some("Ok") ]_vars

\* the loop has ended after playing the cue
C6_Witness ==
    /\ state = Found
    /\ pc = "exit"
    /\ result = Some("Ok")
    /\ sound_played = Some("bark.wav")

\* C7: during the avoidance manoeuvre the variant and tick_count of the next
\* state are the same for every World; Found is entered only from Searching,
\* and a target-coloured World seen while avoiding does not lead to Found.
Worlds ==
    { World(0, c, d, tch, 0) : c \in Colors, d \in Distances, tch \in BOOLEAN }

C7_AvoidanceIgnoresWorld ==
    [][ /\ (Transitioning /\ state.name \in Avoiding)
          => /\ state'.name # "Found"
             /\ \A w \in Worlds :
                  LET n == State_on_world(state, w)
                  IN  /\ n.name = state'.name
                      /\ n.name \in Avoiding => n.tick = state'.tick
        /\ (state'.name = "Found" /\ state.name # "Found")
          => state.name = "Searching" ]_vars

\* a target-coloured World arrived in the middle of AvoidingAdvance
C7_Witness ==
    /\ state.name = "AvoidingAdvance"
    /\ state.tick = 5
    /\ is_yellow(state.world.color)
    /\ pc = "sleep"

\* C8: the first World leads from Start to Searching whatever it holds, and
\* the first Device applied is full forward drive, no turn, no sound.
C8_FirstTick ==
    [][ /\ (Transitioning /\ state = Start) => state'.name = "Searching"
        /\ tick' = 1
          => /\ state'.name = "Searching"
             /\ device_result' = Some(Device(-50, -50, 0, None))
             /\ PcRank(pc') \in 2..4 => left_duty' = -50
             /\ PcRank(pc') \in 3..4 => right_duty' = -50
             /\ pc' = "sleep"
                  => /\ left_duty' = -50 /\ right_duty' = -50
                     /\ sound_played' = None
             /\ pc' # "play" ]_vars

\* the first World showed the target colour and an obstacle
C8_Witness ==
    /\ tick = 1
    /\ state.name = "Searching"
    /\ is_yellow(world.val.color)
    /\ world.val.distance = 10
    /\ world.val.touched
    /\ pc = "sleep"
    /\ left_duty = -50
    /\ right_duty = -50

\* C9: AvoidingTurn is always followed by AvoidingAdvance{0}; its Device is
\* wheels stopped with turn +10; only AvoidingTurn issues a +10, and it is
\* entered only from AvoidingBack, so one +10 is issued per manoeuvre.
C9_TurnOneTick ==
    [][ /\ (Transitioning /\ state.name = "AvoidingTurn")
          => state'.name = "AvoidingAdvance" /\ state'.tick = 0
        /\ state.name = "AvoidingTurn"
          => device_result = Some(Device(0, 0, 10, None))
        /\ (device_result.some /\ device_result.val.turn = 10)
          => state.name = "AvoidingTurn"
        /\ (Transitioning /\ state'.name = "AvoidingTurn")
          => state.name = "AvoidingBack" ]_vars

\* AvoidingAdvance{0} was entered with the +10 of AvoidingTurn applied
C9_Witness ==
    /\ state.name = "AvoidingAdvance"
    /\ state.tick = 0
    /\ drifts = 0
    /\ turn_position = 10

\* C10: a failed call ends the loop at once: the failing step changes nothing
\* but main's result, and afterwards nothing is sampled, no transition is
\* taken and nothing is written.
C10_FailureAborts ==
    [][ /\ (result' = Some("Err") /\ result = None)
          => /\ pc' = "exit"
             /\ UNCHANGED <<state, tick, world, device_result, pos,
                            left_duty, right_duty, turn_position, sound_played>>
        /\ result = Some("Err")
          => /\ pc = "exit"
             /\ UNCHANGED vars ]_vars

\* the write of the right motor failed on entering AvoidingBack
C10_Witness ==
    /\ result = Some("Err")
    /\ pc = "exit"
    /\ state.name = "AvoidingBack"
    /\ state.tick = 0
    /\ left_duty = 50
    /\ right_duty = -50

\* C11: is_yellow is true exactly for red < 510, green > 510 and blue > 510
\* (strict comparisons), for in-range and out-of-range components alike, and
\* Searching enters Found on exactly those colours.
C11_ClassifierThreshold ==
    LET c == world.val.color
        target == c[1] < 510 /\ c[2] > 510 /\ c[3] > 510
    IN  /\ is_yellow(c) <=> target
        /\ pc # "transition" => (state = Found <=> target)

\* a colour with red equal to 510 and blue out of range was classified
C11_Witness ==
    /\ pc = "set_left"
    /\ world.val.color = <<510, 511, 1021>>
    /\ state.name # "Found"

\* C12: the Device computed and applied in an iteration is the output of the
\* state entered by that iteration's transition: backward drive on the tick
\* Searching sees an obstacle, stop-and-sound on the tick it sees the target.
OutputOf(s) ==
    CASE s.name = "Searching" -> Some(Device(-50, -50, 0, None))
      [] s.name = "AvoidingBack" -> Some(Device(50, 50, 0, None))
      [] s.name = "AvoidingTurn" -> Some(Device(0, 0, 10, None))
      [] s.name = "AvoidingAdvance" ->
           IF s.tick = 9 THEN Some(Device(0, 0, -10, None))
                         ELSE Some(Device(-25, -25, 0, None))
      [] s.name = "Found" -> Some(Device(0, 0, 0, Some("bark.wav")))
      [] OTHER -> None

C12_OutputOfNewState ==
    [][ /\ Transitioning
          => /\ device_result' = OutputOf(state')
             /\ (state.name = "Searching" /\ state'.name = "AvoidingBack")
                  => device_result' = Some(Device(50, 50, 0, None))
             /\ (state.name = "Searching" /\ state'.name = "Found")
                  => device_result' = Some(Device(0, 0, 0, Some("bark.wav")))
        /\ (pc = "set_left" /\ pc' = "set_right")
          => left_duty' = OutputOf(state).val.left
        /\ (pc = "set_right" /\ pc' = "get_position")
          => right_duty' = OutputOf(state).val.right
        /\ (pc = "set_position" /\ pc' \in {"sleep", "play"})
          => turn_position' = pos.val + OutputOf(state).val.turn ]_vars

\* the backward drive is on both motors in the iteration that saw the obstacle
C12_Witness ==
    /\ state.name = "AvoidingBack"
    /\ state.tick = 0
    /\ pc = "get_position"
    /\ left_duty = 50
    /\ right_duty = 50
    /\ world.val.distance = 24

\* C13: the machine is never in its error state, a World is only ever fed to
\* Start, Searching, AvoidingBack, AvoidingTurn or AvoidingAdvance, and from
\* each of them every World leads to one of the six declared states.
Declared ==
    {"Start", "Searching", "Found", "AvoidingBack", "AvoidingTurn",
     "AvoidingAdvance"}

C13_NoUndefinedTransition ==
    /\ state.name \in Declared
    /\ pc = "transition"
         => /\ state.name \in Declared \ {"Found"}
            /\ \A w \in Worlds : State_on_world(state, w).name \in Declared

\* a World is about to be fed to AvoidingAdvance at its highest tick_count
C13_Witness ==
    /\ pc = "transition"
    /\ state.name = "AvoidingAdvance"
    /\ state.tick = 10

\* C14: tick_count is 0 on every entry into AvoidingBack, AvoidingTurn or
\* AvoidingAdvance from another state, grows by 1 on every self-transition,
\* and stays within 0..9 for AvoidingBack and AvoidingAdvance.
C14_TickCountRange ==
    [][ /\ (Transitioning /\ state'.name \in Avoiding /\ state'.name # state.name)
          => state'.tick = 0
        /\ (Transitioning /\ state'.name \in Avoiding /\ state'.name = state.name)
          => state'.tick = state.tick + 1
        /\ state'.name \in {"AvoidingBack", "AvoidingAdvance"}
          => state'.tick \in 0..9 ]_vars

\* C15: main returns only with an error or in Found; Found is entered only on
\* a target-coloured World, so a run without failures and without such a
\* World keeps looping; the only Device with a sound is Found's.
C15_StopsOnlyInFoundOrFailure ==
    /\ pc = "exit" => (result = Some("Err") \/ state = Found)
    /\ result = Some("Ok") => (state = Found /\ sound_played = Some("bark.wav"))
    /\ state = Found
         => LET c == world.val.color
            IN  c[1] < 510 /\ c[2] > 510 /\ c[3] > 510
    /\ (device_result.some /\ device_result.val.sound.some) => state = Found
    /\ pc = "play" => state = Found
    /\ sound_played.some => state = Found

\* the loop is still running after a whole avoidance manoeuvre
C15_Witness ==
    /\ state.name = "Searching"
    /\ tick = 25
    /\ pc = "sample"
    /\ result = None

\* C16 as stated: the position written is the position read in the same
\* actuation step plus the Device's turn, and a Device with turn 0 leaves the
\* motor's position as it was.
GetPositionStep == pc = "get_position" /\ pc' = "set_position"
SetPositionStep == pc = "set_position" /\ pc' \in {"sleep", "play"}

C16_WriteLeavesPosition ==
    [][ /\ GetPositionStep => pos' = Some(turn_position)
        /\ SetPositionStep
          => /\ turn_position' = pos.val + device_result.val.turn
             /\ device_result.val.turn = 0 => turn_position' = turn_position ]_vars

\* C16 amended: the position written is the position read in the same
\* actuation step plus the Device's turn; with turn 0 the position read is
\* written back, which leaves the motor where it was if it has not moved
\* between the read and the write.
C16_RelativeWrite ==
    [][ /\ GetPositionStep => pos' = Some(turn_position)
        /\ SetPositionStep
          => /\ turn_position' = pos.val + device_result.val.turn
             /\ device_result.val.turn = 0 => turn_position' = pos.val
             /\ (device_result.val.turn = 0 /\ turn_position = pos.val)
                  => turn_position' = turn_position ]_vars

\* the motor moved between the sample and the read, and +10 was written
C16_Witness ==
    /\ pc = "sleep"
    /\ state.name = "AvoidingTurn"
    /\ world.val.turn # pos.val
    /\ turn_position = pos.val + 10

\* C17: after a failure has ended the loop both drive motors' last commanded
\* duty cycle is zero.
C17_HaltedAfterFailure ==
    result = Some("Err") => (left_duty = 0 /\ right_duty = 0)

\* C18: with the turn motor moved by nothing but the program, its position is
\* the sum of the turn deltas applied so far.  That sum is always 0 or +10, it
\* is 0 in Start, Searching and Found, a +10 is only written on top of 0 and a
\* -10 only on top of +10.
C18_TurnDisplacement ==
    [][ drifts' = 0
        => /\ turn_position' \in {0, 10}
           /\ state'.name \in {"Start", "Searching", "Found"}
                => turn_position' = 0
           /\ (SetPositionStep /\ device_result.val.turn = 10)
                => (turn_position = 0 /\ turn_position' = 10)
           /\ (SetPositionStep /\ device_result.val.turn = -10)
                => (turn_position = 10 /\ turn_position' = 0) ]_vars

\* the -10 has been applied and the manoeuvre is in its last tick
C18_Witness ==
    /\ state.name = "AvoidingAdvance"
    /\ state.tick = 10
    /\ pc = "sleep"
    /\ drifts = 0
    /\ turn_position = 0

\* C19: in the target scenario the loop reaches Found and returns Ok, at the
\* latest on the tick after the manoeuvre's return to Searching (loop tick 26
\* for a manoeuvre started on tick 2), whatever distance and touched are.
C19_TargetEventuallyFound ==
    <>(pc = "exit" /\ state = Found /\ result = Some("Ok") /\ tick <= 26)

\* the run ended on tick 26 on a target-coloured World that reports an obstacle
C19_Witness ==
    /\ pc = "exit"
    /\ state = Found
    /\ result = Some("Ok")
    /\ tick = 26
    /\ world.val.distance = 10
    /\ world.val.touched

\* C20: when the sound is about to play the state is Found, both drive motors
\* have been written 0 and the turn motor has been written the position just
\* read; once the sound has played main has returned Ok with the motors still
\* at 0, without sleeping or sampling again.
C20_StationaryDuringCue ==
    [][ /\ pc' = "play"
          => /\ state' = Found
             /\ left_duty' = 0 /\ right_duty' = 0
             /\ device_result'.val.turn = 0
             /\ sound_played' = None
        /\ (SetPositionStep /\ pc' = "play") => turn_position' = pos.val
        /\ (pc = "play" /\ sound_played' # sound_played)
          => /\ pc' = "exit"
             /\ result' = Some("Ok")
             /\ left_duty' = 0 /\ right_duty' = 0
             /\ tick' = tick /\ world' = world
        /\ sound_played'.some => pc' = "exit" ]_vars

\* the cue is about to play with the robot stopped
C20_Witness ==
    /\ pc = "play"
    /\ state = Found
    /\ left_duty = 0
    /\ right_duty = 0
    /\ turn_position = pos.val
    /\ sound_played = None
====
